---- MODULE Spec2Model ----
(***************************************************************************)
(* A model of the daily-update assistant: SheetsAgent (sheets_agent.py),   *)
(* GoogleSheetsManager (sheets_tools.py) and the Streamlit front end       *)
(* (app.py).                                                               *)
(*                                                                         *)
(* Conventions.                                                            *)
(*  - A Python dict is a function whose DOMAIN is the set of keys present. *)
(*  - A free text (task description, update context) is the sequence of    *)
(*    its words; the empty text is << >>.                                  *)
(*  - Effort is counted in eighths of a person-day (0.5 day = 4), which    *)
(*    makes every product the code computes an integer.                    *)
(*  - A date is a day ordinal (day 1 = 1 January of EpochYear); a          *)
(*    formatted date "MM/DD/YYYY" is the tuple <<month, day, year>>.       *)
(***************************************************************************)
EXTENDS Integers, Sequences, FiniteSets, TLC

VARIABLES
    fn,     \* the pure function under check ("none" in the front-end model)
    args,   \* its arguments
    ret     \* its result, NoResult before the call

pureVars == <<fn, args, ret>>

VARIABLES
    config,           \* the environment GoogleSheetsManager was constructed in
    worksheet,        \* self.worksheet is not None
    sheet,            \* the data rows of the live spreadsheet (below the header)
    sheet_data,       \* st.session_state.sheet_data
    chat_history,     \* st.session_state.chat_history
    pending_changes,  \* st.session_state.pending_changes
    rerun,            \* a script run is due: the first one, or st.rerun() was called
    \* Bookkeeping, read by no action's guard or effect on the program's state:
    nextId,           \* the next fresh row identity
    extEdits,         \* external edits of the live sheet so far
    pendingFrom,      \* the message whose Apply button was clicked last
    audit,            \* per message: Apply clicks, writes, rejection, and whether
                      \* it was written to the live sheet after its rejection
    lastWrite,        \* what the last write_changes_to_sheet call did
    lastRun           \* what the last script run handled

uiVars ==
    <<config, worksheet, sheet, sheet_data, chat_history, pending_changes, rerun,
      nextId, extEdits, pendingFrom, audit, lastWrite, lastRun>>

vars == <<pureVars, uiVars>>

\* The front end's variables in the specifications of the pure functions.
NoFrontEnd ==
    /\ config = "none"
    /\ worksheet = FALSE
    /\ sheet = << >>
    /\ sheet_data = << >>
    /\ chat_history = << >>
    /\ pending_changes = << >>
    /\ rerun = FALSE
    /\ nextId = 0
    /\ extEdits = 0
    /\ pendingFrom = 0
    /\ audit = << >>
    /\ lastWrite = << >>
    /\ lastRun = << >>

NoResult == [kind |-> "pending"]

(***************************************************************************)
(* Text: words, lower-casing and the `in` substring test.                  *)
(***************************************************************************)

\* str.lower() on the words of the vocabulary.
Lower(w) ==
    CASE w = "Research"  -> "research"
      [] w = "Advanced"  -> "advanced"
      [] w = "Afternoon" -> "afternoon"
      [] w = "ALL"       -> "all"
      [] w = "Today"     -> "today"
      [] w = "I"         -> "i"
      [] OTHER           -> w

\* <<k, w>>: keyword k is a proper substring of the lower-case word w.
Embedded ==
    { <<"build", "rebuild">>, <<"read", "already">>, <<"create", "created">>,
      <<"implement", "implemented">>, <<"check", "checked">> }

WordHas(k, w) == k = w \/ <<k, w>> \in Embedded

\* `phrase in text.lower()`, phrase a sequence of one or more words.
Contains(phrase, text) ==
    \E i \in 1..(Len(text) - Len(phrase) + 1) :
        \A j \in 1..Len(phrase) : WordHas(phrase[j], Lower(text[i + j - 1]))

\* any(word in text.lower() for word in words)
AnyIn(words, text) == \E w \in words : Contains(<<w>>, text)

RECURSIVE SeqsUpTo(_, _)
\* All sequences over S of length at most n.
SeqsUpTo(S, n) ==
    IF n = 0 THEN { << >> }
    ELSE LET shorter == SeqsUpTo(S, n - 1)
         IN  shorter \cup { Append(s, x) : s \in shorter, x \in S }

(***************************************************************************)
(* SheetsAgent.estimate_effort                                             *)
(***************************************************************************)

HalfDay == 4        \* base_effort = 0.5
OneDay == 8         \* 1.0
QuarterDay == 2     \* 0.25

Min(a, b) == IF a <= b THEN a ELSE b

ComplexityWords == {"complex", "advanced", "comprehensive"}
ResearchWords == {"research", "analysis"}
ImplementWords == {"implement", "build", "develop"}
ReviewWords == {"review", "check", "read"}

\* base_effort after the complexity indicator (lines 181-185).
ComplexityStep(task_description) ==
    IF AnyIn(ComplexityWords, task_description) THEN HalfDay * 2 ELSE HalfDay

\* A plausible slip: the implementation words tested before the research words.
TaskTypeStepReordered(base_effort, task_description) ==
    IF AnyIn(ImplementWords, task_description) THEN base_effort * 2
    ELSE IF AnyIn(ResearchWords, task_description) THEN (base_effort * 3) \div 2
    ELSE IF AnyIn(ReviewWords, task_description) THEN base_effort \div 2
    ELSE base_effort
\* The task-type adjustment (lines 188-193): *1.5, *2, *0.5.
TaskTypeStep(base_effort, task_description) ==
    IF AnyIn(ResearchWords, task_description) THEN (base_effort * 3) \div 2
    ELSE IF AnyIn(ImplementWords, task_description) THEN base_effort * 2
    ELSE IF AnyIn(ReviewWords, task_description) THEN base_effort \div 2
    ELSE base_effort

\* The context clues (lines 196-201).
ContextStep(base_effort, updates_context) ==
    IF Contains(<<"all", "day">>, updates_context) THEN OneDay
    ELSE IF Contains(<<"few", "hours">>, updates_context) THEN QuarterDay
    ELSE IF Contains(<<"morning">>, updates_context)
            \/ Contains(<<"afternoon">>, updates_context) THEN HalfDay
    ELSE base_effort

\* A plausible slip: the final cap left out.
CapMissing(base_effort) == base_effort

\* min(base_effort, 1.0) (line 203).
Cap(base_effort) == Min(base_effort, OneDay)

estimate_effort(task_description, updates_context) ==
    Cap(ContextStep(TaskTypeStep(ComplexityStep(task_description), task_description),
                    updates_context))

(***************************************************************************)
(* Dates: datetime.now(), timedelta(days=n) and strftime("%m/%d/%Y").      *)
(***************************************************************************)

EpochYear == 2023

IsLeap(y) == (y % 4 = 0 /\ y % 100 # 0) \/ y % 400 = 0

DaysInYear(y) == IF IsLeap(y) THEN 366 ELSE 365

DaysInMonth(y, m) ==
    IF m = 2 THEN (IF IsLeap(y) THEN 29 ELSE 28)
    ELSE IF m \in {4, 6, 9, 11} THEN 30 ELSE 31

RECURSIVE YearOfDay(_, _)
\* <<year, day of the year>> of day ordinal n counted from 1 January of y.
YearOfDay(n, y) ==
    IF n <= DaysInYear(y) THEN <<y, n>> ELSE YearOfDay(n - DaysInYear(y), y + 1)

RECURSIVE MonthOfDay(_, _, _)
\* <<month, day of the month>> of the n-th day of year y, counted from month m.
MonthOfDay(n, y, m) ==
    IF n <= DaysInMonth(y, m) THEN <<m, n>>
    ELSE MonthOfDay(n - DaysInMonth(y, m), y, m + 1)

\* date.strftime("%m/%d/%Y") as <<month, day, year>>.
Strftime(date) ==
    LET yd == YearOfDay(date, EpochYear)
        md == MonthOfDay(yd[2], yd[1], 1)
    IN  <<md[1], md[2], yd[1]>>

(***************************************************************************)
(* SheetsAgent.infer_dates                                                 *)
(***************************************************************************)

StudyWords == {"research", "analysis", "study"}
BuildWords == {"implement", "build", "create", "develop"}

\* A plausible slip: the two keyword tests of the Complete branch swapped.
CompleteStartSwapped(task_description, today) ==
    IF AnyIn(BuildWords, task_description) THEN today - 5
    ELSE IF AnyIn(StudyWords, task_description) THEN today - 3
    ELSE today - 1

\* start_date of a Complete task (lines 153-158).
CompleteStart(task_description, today) ==
    IF AnyIn(StudyWords, task_description) THEN today - 3
    ELSE IF AnyIn(BuildWords, task_description) THEN today - 5
    ELSE today - 1

\* infer_dates with today = datetime.now(): <<start, end>>, both formatted.
infer_dates(task_description, status, today) ==
    LET range ==
            IF status = "Complete"
            THEN <<CompleteStart(task_description, today), today>>
            ELSE IF status = "In Progress" THEN <<today - 1, today + 2>>
            ELSE IF status = "Upcoming" THEN <<today + 1, today + 5>>
            ELSE <<today, today + 7>>
    IN  <<Strftime(range[1]), Strftime(range[2])>>

(***************************************************************************)
(* estimate_effort applied to every task description and context text of   *)
(* bounded length.                                                         *)
(***************************************************************************)

MaxTaskWords == 2
MaxContextWords == 2

EffortTaskWords ==
    {"complex", "Advanced", "research", "implement", "rebuild", "review", "already", "login"}
ContextWords == {"all", "day", "few", "hours", "morning", "Afternoon"}

InitEffort ==
    /\ fn = "estimate_effort"
    /\ args \in [task_description : SeqsUpTo(EffortTaskWords, MaxTaskWords),
                 updates_context : SeqsUpTo(ContextWords, MaxContextWords)]
    /\ ret = NoResult
    /\ NoFrontEnd

CallEstimateEffort ==
    /\ fn = "estimate_effort"
    /\ ret = NoResult
    /\ ret' = [kind |-> "value",
               value |-> estimate_effort(args.task_description, args.updates_context)]
    /\ UNCHANGED <<fn, args, uiVars>>

SpecEffort == InitEffort /\ [][CallEstimateEffort]_vars

EffortReturned == fn = "estimate_effort" /\ ret.kind = "value"

\* Contexts that carry one override phrase each.
OverrideContexts == { <<"all", "day">>, <<"few", "hours">>, <<"morning">>, <<"Afternoon">> }

\* C9: whatever the task description and the context text, the effort that
\* estimate_effort returns is greater than 0 and at most 1.0 day, and for every
\* task description each of the override values 1.0, 0.25 and 0.5 is returned
\* under some context.
C9_EffortInRange ==
    EffortReturned =>
        /\ 0 < ret.value
        /\ ret.value <= OneDay
        /\ \A v \in {OneDay, QuarterDay, HalfDay} :
               \E c \in OverrideContexts : estimate_effort(args.task_description, c) = v

\* The multipliers stack beyond one day, no override applies, and the cap acts.
C9_Witness ==
    /\ EffortReturned
    /\ TaskTypeStep(ComplexityStep(args.task_description), args.task_description) > OneDay
    /\ ContextStep(0, args.updates_context) = 0
    /\ ret.value = OneDay

(***************************************************************************)
(* The effort rule, written out as the table of its cases (eighths of a    *)
(* day).                                                                   *)
(***************************************************************************)

\* The task type of a text: the first of research, implement, review whose
\* words it contains, else none.
TaskType(task) ==
    IF AnyIn({"research", "analysis"}, task) THEN "research"
    ELSE IF AnyIn({"implement", "build", "develop"}, task) THEN "implement"
    ELSE IF AnyIn({"review", "check", "read"}, task) THEN "review"
    ELSE "none"

\* 0.5, doubled for a complex task, times the one multiplier of the task type.
RuleBeforeOverride(task) ==
    LET type == TaskType(task)
    IN  IF AnyIn({"complex", "advanced", "comprehensive"}, task)
        THEN CASE type = "research"  -> 12     \* 0.5 * 2 * 1.5
               [] type = "implement" -> 16     \* 0.5 * 2 * 2
               [] type = "review"    -> 4      \* 0.5 * 2 * 0.5
               [] OTHER              -> 8
        ELSE CASE type = "research"  -> 6      \* 0.5 * 1.5
               [] type = "implement" -> 8      \* 0.5 * 2
               [] type = "review"    -> 2      \* 0.5 * 0.5
               [] OTHER              -> 4

\* The first override that the context text carries, else the computed value.
RuleOverride(computed, context) ==
    IF Contains(<<"all", "day">>, context) THEN 8
    ELSE IF Contains(<<"few", "hours">>, context) THEN 2
    ELSE IF Contains(<<"morning">>, context) \/ Contains(<<"afternoon">>, context) THEN 4
    ELSE computed

DateTaskWords ==
    {"Research", "analysis", "study", "implement", "rebuild", "created", "develop",
     "login", "completed"}
Statuses == {"Complete", "In Progress", "Upcoming", "On Hold", "Deferred", "complete", ""}
Todays == {6, 364, 423, 426}

InitDates ==
    /\ fn = "infer_dates"
    /\ args \in [task_description : SeqsUpTo(DateTaskWords, MaxTaskWords),
                 status : Statuses, today : Todays]
    /\ ret = NoResult
    /\ NoFrontEnd

CallInferDates ==
    /\ fn = "infer_dates"
    /\ ret = NoResult
    /\ ret' = [kind |-> "value",
               value |-> infer_dates(args.task_description, args.status, args.today)]
    /\ UNCHANGED <<fn, args, uiVars>>

SpecDates == InitDates /\ [][CallInferDates]_vars

DatesReturned == fn = "infer_dates" /\ ret.kind = "value"

\* The date-inference table, rows read top to bottom: <<start, end>> offsets in days.
DateTableRow(task, status) ==
    IF status = "Complete" /\ AnyIn({"research", "analysis", "study"}, task) THEN <<-3, 0>>
    ELSE IF status = "Complete"
            /\ AnyIn({"implement", "build", "create", "develop"}, task) THEN <<-5, 0>>
    ELSE IF status = "Complete" THEN <<-1, 0>>
    ELSE IF status = "In Progress" THEN <<-1, 2>>
    ELSE IF status = "Upcoming" THEN <<1, 5>>
    ELSE <<0, 7>>

\* C10: for reference day T, infer_dates returns the dates of the first matching
\* row of the date-inference table, formatted; the end date is T whenever the
\* status is Complete.
C10_DateTable ==
    DatesReturned =>
        LET row == DateTableRow(args.task_description, args.status)
        IN  /\ ret.value = <<Strftime(args.today + row[1]), Strftime(args.today + row[2])>>
            /\ args.status = "Complete" => ret.value[2] = Strftime(args.today)

\* A Complete task that mentions both a research word and a build word: the
\* research row wins, and the start date falls in the previous month.
C10_Witness ==
    /\ DatesReturned
    /\ args.status = "Complete"
    /\ AnyIn(StudyWords, args.task_description)
    /\ AnyIn(BuildWords, args.task_description)
    /\ ret.value[1] = Strftime(args.today - 3)
    /\ ret.value[1][1] # ret.value[2][1]

(***************************************************************************)
(* Proposed changes and SheetsAgent.validate_changes                       *)
(***************************************************************************)

\* d.get(k, default)
Get(d, k, default) == IF k \in DOMAIN d THEN d[k] ELSE default

\* d[k] = v
Put(d, k, v) == [x \in DOMAIN d \cup {k} |-> IF x = k THEN v ELSE d[x]]

\* The falsy value of a field's type: 0 for the number, "" for a string, the
\* empty text or date otherwise.
EmptyOf(k) ==
    IF k = "Effort" THEN 0
    ELSE IF k \in {"Status", "Priority", "action", "row_id"} THEN ""
    ELSE << >>

\* not d.get(k)
Falsy(d, k) == k \notin DOMAIN d \/ d[k] = EmptyOf(k)

\* A plausible slip: testing that the key is present instead of its value.
HasTaskKey(change) == "Task" \in DOMAIN Get(change, "data", << >>)

\* change.get('data', {}).get('Task') is truthy (line 213).
HasTask(change) == ~Falsy(Get(change, "data", << >>), "Task")

\* A plausible slip: only the date that is missing is set.
FillDatesMissingOnly(data, today) ==
    LET dates == infer_dates(Get(data, "Task", << >>),
                             Get(data, "Status", "Upcoming"), today)
        a == IF Falsy(data, "Start Date") THEN Put(data, "Start Date", dates[1]) ELSE data
    IN  IF Falsy(data, "End Date") THEN Put(a, "End Date", dates[2]) ELSE a
\* Lines 220-223: both dates are set when either is missing.
FillDates(data, today) ==
    IF Falsy(data, "Start Date") \/ Falsy(data, "End Date")
    THEN LET dates == infer_dates(Get(data, "Task", << >>),
                                  Get(data, "Status", "Upcoming"), today)
         IN  Put(Put(data, "Start Date", dates[1]), "End Date", dates[2])
    ELSE data

\* A plausible slip: the estimate added to the effort already there (+=), on
\* every pass.
FillEffortAdds(data) ==
    LET task_desc == Get(data, "Task", << >>)
    IN  Put(data, "Effort", Get(data, "Effort", 0) + estimate_effort(task_desc, task_desc))
\* Lines 226-227.
FillEffort(data) ==
    IF Falsy(data, "Effort")
    THEN LET task_desc == Get(data, "Task", << >>)
         IN  Put(data, "Effort", estimate_effort(task_desc, task_desc))
    ELSE data

\* Lines 230-231.
FillPriority(data) ==
    IF Falsy(data, "Priority") THEN Put(data, "Priority", "Medium") ELSE data

\* A plausible slip: the default priority left out.
ValidateOneNoPriority(change, today) ==
    Put(change, "data", FillEffort(FillDates(change["data"], today)))
\* The body of the loop for a retained change (lines 217-233).
ValidateOne(change, today) ==
    Put(change, "data", FillPriority(FillEffort(FillDates(change["data"], today))))

RECURSIVE validate_changes(_, _)
validate_changes(changes, today) ==
    IF changes = << >> THEN << >>
    ELSE LET rest == validate_changes(Tail(changes), today)
         IN  IF HasTask(Head(changes))
             THEN <<ValidateOne(Head(changes), today)>> \o rest
             ELSE rest

(***************************************************************************)
(* validate_changes applied to every list of bounded length over a sample  *)
(* of changes: with and without data, Task, Status, dates, Effort and      *)
(* Priority.                                                               *)
(***************************************************************************)

MaxChanges == 2

TaskParts ==
    { << >>, [Task |-> << >>], [Task |-> <<"completed", "login">>],
      [Task |-> <<"Research", "rebuild">>] }

OtherParts ==
    { << >>,
      [Status |-> "Complete"],
      [Status |-> "On Hold", Priority |-> "High"],
      [Status |-> "", Effort |-> 0, Priority |-> ""],
      [Status |-> "Complete", Effort |-> 0],
      ("Start Date" :> <<1, 5, 2023>>) @@ [Status |-> "In Progress", Effort |-> 12],
      ("Start Date" :> <<1, 5, 2023>>) @@ ("End Date" :> <<1, 9, 2023>>)
          @@ [Status |-> "Complete", Effort |-> 4, Priority |-> "Low"] }

\* The change of the end-to-end scenario: the update "Today I completed the
\* login module" classified as a new Complete task, nothing else given.
LoginChange ==
    [action |-> "create",
     data |-> [Task |-> <<"Today", "I", "completed", "the", "login", "module">>,
               Status |-> "Complete"]]

SampleData == { t @@ o : t \in TaskParts, o \in OtherParts }

SampleChanges ==
    { [action |-> "create", data |-> d] : d \in SampleData }
    \cup { [action |-> "create"],
           LoginChange,
           [data |-> [Task |-> <<"login">>]],
           [action |-> "update", row_id |-> "1",
            data |-> [Task |-> <<"login">>, Status |-> "Complete"]],
           [action |-> "update", row_id |-> "2", data |-> [Status |-> "Complete"]] }

InitValidate ==
    /\ fn = "validate_changes"
    /\ args \in [changes : SeqsUpTo(SampleChanges, MaxChanges), today : Todays]
    /\ ret = NoResult
    /\ NoFrontEnd

CallValidateChanges ==
    /\ fn = "validate_changes"
    /\ ret = NoResult
    /\ ret' = [kind |-> "value", value |-> validate_changes(args.changes, args.today)]
    /\ UNCHANGED <<fn, args, uiVars>>

SpecValidate == InitValidate /\ [][CallValidateChanges]_vars

ValidateReturned == fn = "validate_changes" /\ ret.kind = "value"

\* The data of a change has a Task and it is not empty.
TaskGiven(change) ==
    /\ "data" \in DOMAIN change
    /\ "Task" \in DOMAIN change.data
    /\ change.data.Task # << >>

\* `out` is the input change `in`: same keys beside data, same values for them,
\* same Task, and no field of the data removed.
SameChange(out, in) ==
    /\ DOMAIN out = DOMAIN in
    /\ \A k \in DOMAIN in \ {"data"} : out[k] = in[k]
    /\ DOMAIN in.data \subseteq DOMAIN out.data
    /\ out.data.Task = in.data.Task

\* C2: validate_changes returns, in their input order and with nothing added, the
\* input changes whose data has a non-empty Task; every returned change has a
\* non-empty Task, and the call returns (no error) when it drops changes.
C2_ValidateKeepsTasked ==
    ValidateReturned =>
        LET kept == SelectSeq(args.changes, TaskGiven)
        IN  /\ Len(ret.value) = Len(kept)
            /\ \A i \in 1..Len(kept) :
                   /\ SameChange(ret.value[i], kept[i])
                   /\ TaskGiven(ret.value[i])

\* A list of which the first change is dropped for an empty Task and the second
\* is kept.
C2_Witness ==
    /\ ValidateReturned
    /\ Len(args.changes) = 2
    /\ "data" \in DOMAIN args.changes[1]
    /\ "Task" \in DOMAIN args.changes[1].data
    /\ ~TaskGiven(args.changes[1])
    /\ TaskGiven(args.changes[2])
    /\ Len(ret.value) = 1

(***************************************************************************)
(* The dates of the retained changes.                                      *)
(***************************************************************************)

\* The retained input changes, in order; the i-th is returned as ret.value[i].
Retained == SelectSeq(args.changes, TaskGiven)

\* A date of the data is missing: the key is absent or its value is empty.
DateMissing(data) == Falsy(data, "Start Date") \/ Falsy(data, "End Date")

\* The dates of the table row for the task and status, at reference day T.
TableDates(task, status, T) ==
    LET row == DateTableRow(task, status)
    IN  <<Strftime(T + row[1]), Strftime(T + row[2])>>

\* The dates of the returned data `out` are those of the table for `status`
\* when a date of the input data `in` is missing, and those of `in` otherwise.
DatesFollow(out, in, status, T) ==
    IF DateMissing(in)
    THEN <<out["Start Date"], out["End Date"]>> = TableDates(in.Task, status, T)
    ELSE out["Start Date"] = in["Start Date"] /\ out["End Date"] = in["End Date"]

\* C11 as stated: a retained change that misses a date gets both dates from the
\* table row of its own Status, a change with no Status falling in the row
\* "On Hold / Deferred / other"; with both dates present neither is altered.
C11_Original ==
    ValidateReturned =>
        \A i \in 1..Len(Retained) :
            DatesFollow(ret.value[i].data, Retained[i].data,
                        Get(Retained[i].data, "Status", "other"), args.today)

\* C11 amended: a retained change that misses a date (either one) gets both
\* dates from the table row of its own Status, a change with no Status key
\* being treated as Upcoming (T+1d, T+5d) and one with an empty or unlisted
\* Status falling in the row "On Hold / Deferred / other"; with both dates
\* present neither is altered.
C11_DatesFilled ==
    ValidateReturned =>
        \A i \in 1..Len(Retained) :
            DatesFollow(ret.value[i].data, Retained[i].data,
                        Get(Retained[i].data, "Status", "Upcoming"), args.today)

\* A retained change that has a start date, no end date and a Status: both
\* dates are set from the table; and a retained change without Status or dates.
C11_Witness ==
    /\ ValidateReturned
    /\ Len(Retained) = 2
    /\ ~Falsy(Retained[1].data, "Start Date")
    /\ Falsy(Retained[1].data, "End Date")
    /\ "Status" \in DOMAIN Retained[1].data
    /\ ret.value[1].data["Start Date"] # Retained[1].data["Start Date"]
    /\ "Status" \notin DOMAIN Retained[2].data
    /\ ret.value[2].data["Start Date"] = Strftime(args.today + 1)

(***************************************************************************)
(* Effort and Priority of the retained changes.                            *)
(***************************************************************************)

\* The value of the effort rule for a task text, the text also the context.
RuleEffort(task) ==
    LET value == RuleOverride(RuleBeforeOverride(task), task)
    IN  IF value > 8 THEN 8 ELSE value

\* C13 as stated: every returned change has Start Date, End Date, Effort and
\* Priority; a supplied Effort, 0 included, and a supplied Priority are kept
\* unchanged; a missing Effort becomes the value of the effort rule for the Task
\* text and a missing Priority becomes Medium.
C13_Original ==
    ValidateReturned =>
        \A i \in 1..Len(Retained) :
            LET in == Retained[i].data
                out == ret.value[i].data
            IN  /\ {"Start Date", "End Date", "Effort", "Priority"} \subseteq DOMAIN out
                /\ out.Effort = IF "Effort" \in DOMAIN in THEN in.Effort
                                ELSE RuleEffort(in.Task)
                /\ out.Priority = IF Falsy(in, "Priority") THEN "Medium" ELSE in.Priority

(***************************************************************************)
(* The end-to-end scenario.                                                *)
(***************************************************************************)

\* C14: the single create change for the task "Today I completed the login
\* module" with Status Complete and no dates, Effort or Priority, validated at
\* reference day T, yields exactly one change, with Start Date T-1d, End Date T,
\* an Effort of at most 1.0 and Priority Medium.
C14_LoginScenario ==
    (ValidateReturned /\ args.changes = <<LoginChange>>) =>
        /\ Len(ret.value) = 1
        /\ ret.value[1].action = "create"
        /\ ret.value[1].data.Task = LoginChange.data.Task
        /\ ret.value[1].data.Status = "Complete"
        /\ {"Start Date", "End Date", "Effort", "Priority"}
               \subseteq DOMAIN ret.value[1].data
        /\ ret.value[1].data["Start Date"] = Strftime(args.today - 1)
        /\ ret.value[1].data["End Date"] = Strftime(args.today)
        /\ ret.value[1].data.Effort <= 8
        /\ ret.value[1].data.Priority = "Medium"

\* The scenario on the first day of a month: the start date is the last day of
\* the month before, and the effort is the base half day.
C14_Witness ==
    /\ ValidateReturned
    /\ args.changes = <<LoginChange>>
    /\ Len(ret.value) = 1
    /\ ret.value[1].data["End Date"][2] = 1
    /\ ret.value[1].data["Start Date"][1] # ret.value[1].data["End Date"][1]
    /\ ret.value[1].data.Effort = 4

(***************************************************************************)
(* A second pass of validate_changes.                                      *)
(***************************************************************************)

\* C24: at a fixed reference day validate_changes is idempotent: validating
\* the list it returned returns that list again, with no change dropped and no
\* field of a change altered.
C24_Idempotent ==
    ValidateReturned =>
        LET again == validate_changes(ret.value, args.today)
        IN  /\ Len(again) = Len(ret.value)
            /\ \A i \in 1..Len(again) :
                   /\ DOMAIN again[i] = DOMAIN ret.value[i]
                   /\ \A k \in DOMAIN again[i] : again[i][k] = ret.value[i][k]

\* A first pass that dropped a change and filled the dates, the effort and the
\* priority of another, supplied with an Effort of 0; the second pass returns
\* the same list.
C24_Witness ==
    /\ ValidateReturned
    /\ Len(args.changes) = 2
    /\ Len(ret.value) = 1
    /\ Falsy(Retained[1].data, "Start Date")
    /\ Get(Retained[1].data, "Effort", 1) = 0
    /\ Falsy(Retained[1].data, "Priority")
    /\ ret.value[1].data.Effort > 0
    /\ validate_changes(ret.value, args.today) = ret.value

(***************************************************************************)
(* SheetsAgent.parse_daily_updates: the handling of the service response.  *)
(* A response text is a sequence of tokens:                                *)
(*   "J" the fence opener ```json     "B" a bare fence ```                 *)
(*   "T" prose                        "W" white space                      *)
(*   "{" "}" braces                                                        *)
(*   "C" the member "changes": [...]  "K" a member with another key        *)
(***************************************************************************)

Tokens == {"J", "B", "T", "W", "{", "}", "C", "K"}

\* A list carried by the member "C".
ChangesPayload == << [action |-> "create", data |-> [Task |-> <<"login">>]] >>

Error == [kind |-> "error"]
Value(v) == [kind |-> "value", value |-> v]

RECURSIVE LStrip(_)
LStrip(s) == IF s # << >> /\ Head(s) = "W" THEN LStrip(Tail(s)) ELSE s

RECURSIVE RStrip(_)
RStrip(s) ==
    IF s # << >> /\ s[Len(s)] = "W" THEN RStrip(SubSeq(s, 1, Len(s) - 1)) ELSE s

\* str(response).strip() (line 101)
Strip(s) == RStrip(LStrip(s))

\* Lines 104-107: drop a leading ```json and a trailing ```.
CleanFences(s) ==
    LET a == IF s # << >> /\ Head(s) = "J" THEN Tail(s) ELSE s
    IN  IF a # << >> /\ a[Len(a)] = "B" THEN SubSeq(a, 1, Len(a) - 1) ELSE a

\* re.search(r'\{.*\}', text, re.DOTALL): from the first "{" to the last "}"
\* after it; the text itself when there is no match (lines 111-113).
JsonMatch(s) ==
    LET opens == { i \in 1..Len(s) : s[i] = "{" }
    IN  IF opens = {} THEN s
        ELSE LET first == CHOOSE i \in opens : \A j \in opens : i <= j
                 closes == { j \in (first + 1)..Len(s) : s[j] = "}" }
             IN  IF closes = {} THEN s
                 ELSE SubSeq(s, first, CHOOSE j \in closes : \A k \in closes : k <= j)

\* The text is one JSON object: braces around members and white space, white
\* space allowed around it.
IsJsonObject(s) ==
    LET t == Strip(s)
    IN  /\ Len(t) >= 2
        /\ t[1] = "{"
        /\ t[Len(t)] = "}"
        /\ \A i \in 2..(Len(t) - 1) : t[i] \in {"C", "K", "W"}

\* json.loads of an object: the dict of its members, `payload` the list that
\* the member "C" carries.
JsonLoads(s, payload) ==
    LET keys == { s[i] : i \in 1..Len(s) } \cap {"C", "K"}
    IN  [k \in { IF x = "C" THEN "changes" ELSE "other" : x \in keys } |->
            IF k = "changes" THEN payload ELSE << >>]

\* A plausible slip: changes_data["changes"], a KeyError when the key is absent.
GetChangesStrict(changes_data) ==
    IF "changes" \in DOMAIN changes_data THEN Value(changes_data["changes"]) ELSE Error

\* changes_data.get("changes", []) (line 116)
GetChanges(changes_data) == Value(Get(changes_data, "changes", << >>))

\* Lines 99-119. `response` is what agent.run produced: raised when the call
\* raised, else the text returned and the list its "changes" member carries.
\* Every exception leaves as the one wrapped Exception, the result Error.
parse_daily_updates(response) ==
    IF response.raised THEN Error
    ELSE LET response_text == JsonMatch(CleanFences(Strip(response.text)))
         IN  IF IsJsonObject(response_text)
             THEN GetChanges(JsonLoads(response_text, response.payload))
             ELSE Error

(***************************************************************************)
(* parse_daily_updates applied to every response text of bounded length    *)
(* and to a failed service call.                                           *)
(***************************************************************************)

MaxTokens == 5

InitParse ==
    /\ fn = "parse_daily_updates"
    /\ args \in { [raised |-> TRUE, text |-> << >>, payload |-> << >>] }
                \cup [raised : {FALSE}, text : SeqsUpTo(Tokens, MaxTokens),
                      payload : {ChangesPayload}]
    /\ ret = NoResult
    /\ NoFrontEnd

CallParseDailyUpdates ==
    /\ fn = "parse_daily_updates"
    /\ ret = NoResult
    /\ ret' = parse_daily_updates(args)
    /\ UNCHANGED <<fn, args, uiVars>>

SpecParse == InitParse /\ [][CallParseDailyUpdates]_vars

ParseReturned == fn = "parse_daily_updates" /\ ret.kind # "pending"

\* Some stretch of the text is a JSON object.
HasJsonObject(text) ==
    \E i \in 1..Len(text) : \E j \in i..Len(text) :
        /\ text[i] = "{"
        /\ text[j] = "}"
        /\ IsJsonObject(SubSeq(text, i, j))

\* The object that the call parsed, if it parsed one.
ParsedObject(text) == JsonMatch(CleanFences(Strip(text)))
ParsedAnObject(text) == IsJsonObject(ParsedObject(text))
LacksChanges(text) == \A i \in 1..Len(ParsedObject(text)) : ParsedObject(text)[i] # "C"

\* C5 as stated: the call fails when no JSON object is recoverable and also when
\* the parsed object has no "changes" key.
C5_Original ==
    ParseReturned =>
        /\ (args.raised \/ ~HasJsonObject(args.text)) => ret = Error
        /\ (~args.raised /\ ParsedAnObject(args.text) /\ LacksChanges(args.text))
               => ret = Error

\* C5 amended: the call fails with the wrapped error whenever the response holds
\* no valid JSON object, and then returns no list; when the object it parsed has
\* no "changes" key it raises nothing and returns the empty list.
C5_ParseFailure ==
    ParseReturned =>
        /\ (args.raised \/ ~HasJsonObject(args.text)) => ret = Error
        /\ (~args.raised /\ ParsedAnObject(args.text) /\ LacksChanges(args.text))
               => ret = Value(<< >>)

\* A fenced object with another key and no "changes" key: the empty list.
C5_Witness ==
    /\ ParseReturned
    /\ ~args.raised
    /\ args.text = <<"J", "{", "K", "}", "B">>
    /\ ret = Value(<< >>)

(***************************************************************************)
(* Responses that hold more than one JSON object.                          *)
(***************************************************************************)

\* The JSON objects of a text: <<i, j>> with a "{" at i, the next "}" at j and
\* members and white space between them.
ObjectsOf(text) ==
    { <<i, j>> \in (1..Len(text)) \X (1..Len(text)) :
        /\ i < j
        /\ text[i] = "{"
        /\ text[j] = "}"
        /\ \A k \in (i + 1)..(j - 1) : text[k] \in {"C", "K", "W"} }

\* The text is prose, white space and code fences around one or more JSON
\* objects: every brace and every member belongs to one of its objects.
ProseAroundObjects(text) ==
    /\ ObjectsOf(text) # {}
    /\ \A k \in 1..Len(text) :
           text[k] \in {"{", "}", "C", "K"} =>
               \E o \in ObjectsOf(text) : o[1] <= k /\ k <= o[2]

\* The first object of such a text.
FirstObject(text) ==
    LET o == CHOOSE o \in ObjectsOf(text) : \A q \in ObjectsOf(text) : o[1] <= q[1]
    IN  SubSeq(text, o[1], o[2])

\* C18 as stated: for a response of prose and code fences around one or more
\* JSON objects, the call returns the "changes" list of the first object.
C18_Original ==
    (ParseReturned /\ ~args.raised /\ ProseAroundObjects(args.text)
        /\ \E k \in 1..Len(FirstObject(args.text)) : FirstObject(args.text)[k] = "C") =>
        ret = Value(args.payload)

\* The same for the responses that hold exactly one JSON object.
C18_SingleObject ==
    (ParseReturned /\ ~args.raised /\ ProseAroundObjects(args.text)
        /\ Cardinality(ObjectsOf(args.text)) = 1
        /\ \E k \in 1..Len(FirstObject(args.text)) : FirstObject(args.text)[k] = "C") =>
        ret = Value(args.payload)

(***************************************************************************)
(* Construction of the two agents: the provider is chosen from the         *)
(* credentials of the environment (SheetsAgent.__init__ and                *)
(* ResearchAgent.__init__).                                                *)
(***************************************************************************)

\* os.getenv of a variable that is not set.
Unset == "None"

\* What os.getenv can return for a credential: nothing, an empty value, a key.
KeyValues == {Unset, "", "sk-a", "sk-b"}

Environments ==
    [GOOGLE_API_KEY : KeyValues, OPENAI_API_KEY : KeyValues, GROQ_API_KEY : KeyValues]

\* `if self.x_api_key:`
Truthy(key) == key # Unset /\ key # ""

\* The agent built over LiteLLMModel(model_id, api_key).
Agent(model_name, api_key_for_litellm) ==
    Value([model_name |-> model_name, api_key_for_litellm |-> api_key_for_litellm])

\* A plausible slip: the OpenAI credential tested before the Google one.
SheetsAgentOpenAIFirst(env) ==
    IF Truthy(env.OPENAI_API_KEY) THEN Agent("gpt-4o-mini", env.OPENAI_API_KEY)
    ELSE IF Truthy(env.GOOGLE_API_KEY)
    THEN Agent("gemini/gemini-2.5-pro", env.GOOGLE_API_KEY)
    ELSE IF Truthy(env.GROQ_API_KEY) THEN Agent("groq/llama3-8b-8192", env.GROQ_API_KEY)
    ELSE Error

\* SheetsAgent.__init__ (sheets_agent.py lines 13-36); Error is the ValueError.
SheetsAgent(env) ==
    IF Truthy(env.GOOGLE_API_KEY) THEN Agent("gemini/gemini-2.5-pro", env.GOOGLE_API_KEY)
    ELSE IF Truthy(env.OPENAI_API_KEY) THEN Agent("gpt-4o-mini", env.OPENAI_API_KEY)
    ELSE IF Truthy(env.GROQ_API_KEY) THEN Agent("groq/llama3-8b-8192", env.GROQ_API_KEY)
    ELSE Error

\* ResearchAgent.__init__ (research_agent.py lines 5-24); Error is the ValueError.
ResearchAgent(env) ==
    IF Truthy(env.OPENAI_API_KEY) THEN Agent("gpt-4o-mini", env.OPENAI_API_KEY)
    ELSE IF Truthy(env.GROQ_API_KEY) THEN Agent("groq/llama3-8b-8192", env.GROQ_API_KEY)
    ELSE Error

InitProviders ==
    /\ fn \in {"SheetsAgent", "ResearchAgent"}
    /\ args \in Environments
    /\ ret = NoResult
    /\ NoFrontEnd

ConstructSheetsAgent ==
    /\ fn = "SheetsAgent"
    /\ ret = NoResult
    /\ ret' = SheetsAgent(args)
    /\ UNCHANGED <<fn, args, uiVars>>

ConstructResearchAgent ==
    /\ fn = "ResearchAgent"
    /\ ret = NoResult
    /\ ret' = ResearchAgent(args)
    /\ UNCHANGED <<fn, args, uiVars>>

SpecProviders == InitProviders /\ [][ConstructSheetsAgent \/ ConstructResearchAgent]_vars

Constructed == fn \in {"SheetsAgent", "ResearchAgent"} /\ ret.kind # "pending"

\* The providers of an agent in priority order: <<credential, model>> pairs.
ProviderOrder(agent) ==
    IF agent = "SheetsAgent"
    THEN << <<"GOOGLE_API_KEY", "gemini/gemini-2.5-pro">>,
            <<"OPENAI_API_KEY", "gpt-4o-mini">>,
            <<"GROQ_API_KEY", "groq/llama3-8b-8192">> >>
    ELSE << <<"OPENAI_API_KEY", "gpt-4o-mini">>,
            <<"GROQ_API_KEY", "groq/llama3-8b-8192">> >>

\* The positions in the order of the providers whose credential is present
\* (set and not empty).
PresentProviders(agent, env) ==
    { i \in 1..Len(ProviderOrder(agent)) : env[ProviderOrder(agent)[i][1]] \notin {Unset, ""} }

\* C15: for every combination of credentials the agent constructed uses exactly
\* the first provider, in its fixed priority order (update classifier: Google,
\* OpenAI, Groq; guide generator: OpenAI, Groq), whose credential is present,
\* with that credential; when none of its providers has a credential the
\* construction fails and no agent is created.
C15_ProviderSelection ==
    Constructed =>
        LET present == PresentProviders(fn, args)
        IN  IF present = {} THEN ret = Error
            ELSE LET first == CHOOSE i \in present : \A j \in present : i <= j
                     provider == ProviderOrder(fn)[first]
                 IN  /\ ret.kind = "value"
                     /\ ret.value.model_name = provider[2]
                     /\ ret.value.api_key_for_litellm = args[provider[1]]

\* The update classifier constructed with all three credentials present and
\* different keys for Google and OpenAI: Google is chosen.
C15_Witness ==
    /\ Constructed
    /\ fn = "SheetsAgent"
    /\ PresentProviders(fn, args) = {1, 2, 3}
    /\ args.GOOGLE_API_KEY # args.OPENAI_API_KEY
    /\ ret.kind = "value"
    /\ ret.value.api_key_for_litellm = args.GOOGLE_API_KEY

(***************************************************************************)
(* docx_generator.py: _add_run_with_markdown.                              *)
(* A text is a sequence of characters; "*" is the star.                    *)
(***************************************************************************)

RECURSIVE StarRun(_, _)
\* The number of consecutive stars of the text from position p on.
StarRun(text, p) ==
    IF p <= Len(text) /\ text[p] = "*" THEN 1 + StarRun(text, p + 1) ELSE 0

\* The match of \**.*?\** searched from position p: <<start, length>>, or
\* << >> when there is none. The first \** takes every star at p and the rest
\* matches empty; when an empty match is not allowed (it would touch the empty
\* match before it) the lazy .*? takes one character and the last \** the stars
\* after it.
MatchAt(text, p, must_advance) ==
    IF StarRun(text, p) > 0 THEN <<p, StarRun(text, p)>>
    ELSE IF ~must_advance THEN <<p, 0>>
    ELSE IF p <= Len(text) THEN <<p, 1 + StarRun(text, p + 1)>>
    ELSE << >>

RECURSIVE SplitFrom(_, _, _)
\* re.split with one capturing group, from position p: before each match the
\* text since the last match (always empty here, a match starts where the last
\* one ended), then the match; at the end the rest of the text.
SplitFrom(text, p, must_advance) ==
    LET m == MatchAt(text, p, must_advance)
    IN  IF m = << >> THEN << SubSeq(text, p, Len(text)) >>
        ELSE << << >>, SubSeq(text, m[1], m[1] + m[2] - 1) >>
                 \o SplitFrom(text, m[1] + m[2], m[2] = 0)

\* re.split(r'(\**.*?\**)', text) (line 13)
ReSplit(text) == SplitFrom(text, 1, FALSE)

\* part.startswith('**') and part.endswith('**') (line 15)
IsBoldPart(part) ==
    /\ Len(part) >= 2
    /\ part[1] = "*" /\ part[2] = "*"
    /\ part[Len(part) - 1] = "*" /\ part[Len(part)] = "*"

\* The run added for a part (lines 15-21): part[2:-2] in bold, or the part.
RunOf(part) ==
    IF IsBoldPart(part)
    THEN [text |-> SubSeq(part, 3, Len(part) - 2), bold |-> TRUE]
    ELSE [text |-> part, bold |-> FALSE]

\* The runs that _add_run_with_markdown adds to the paragraph, in order.
add_run_with_markdown(text) ==
    LET parts == ReSplit(text)
    IN  [i \in 1..Len(parts) |-> RunOf(parts[i])]

(***************************************************************************)
(* _add_run_with_markdown applied to every text of bounded length.         *)
(***************************************************************************)

MaxChars == 6

RunChars == {"*", "a", " "}

InitMarkdown ==
    /\ fn = "_add_run_with_markdown"
    /\ args \in [text : SeqsUpTo(RunChars, MaxChars)]
    /\ ret = NoResult
    /\ NoFrontEnd

CallAddRunWithMarkdown ==
    /\ fn = "_add_run_with_markdown"
    /\ ret = NoResult
    /\ ret' = Value(add_run_with_markdown(args.text))
    /\ UNCHANGED <<fn, args, uiVars>>

SpecMarkdown == InitMarkdown /\ [][CallAddRunWithMarkdown]_vars

RunsAdded == fn = "_add_run_with_markdown" /\ ret.kind = "value"

RECURSIVE Segments(_, _)
\* The text cut at its ** markers, read left to right: the segments between
\* them, `seg` the segment being read.
Segments(text, seg) ==
    IF text = << >> THEN <<seg>>
    ELSE IF Len(text) >= 2 /\ text[1] = "*" /\ text[2] = "*"
    THEN <<seg>> \o Segments(SubSeq(text, 3, Len(text)), << >>)
    ELSE Segments(Tail(text), Append(seg, Head(text)))

RECURSIVE Concat(_)
\* The texts of a sequence joined.
Concat(texts) == IF texts = << >> THEN << >> ELSE Head(texts) \o Concat(Tail(texts))

\* The text has an even number of ** markers.
EvenMarkers(text) == Len(Segments(text, << >>)) % 2 = 1

\* A marker is left in the text.
HasMarker(text) == \E i \in 1..(Len(text) - 1) : text[i] = "*" /\ text[i + 1] = "*"

\* C16 as stated: for a text with an even number of ** markers, the texts of
\* the runs joined are the text without its markers, the bold runs carry
\* exactly the text between an opening and a closing marker, and no run keeps
\* a marker.
C16_Original ==
    (RunsAdded /\ EvenMarkers(args.text)) =>
        LET segs == Segments(args.text, << >>)
            runs == ret.value
            bold == SelectSeq(runs, LAMBDA r : r.bold)
        IN  /\ Concat([i \in 1..Len(runs) |-> runs[i].text]) = Concat(segs)
            /\ Concat([i \in 1..Len(bold) |-> bold[i].text])
                   = Concat([i \in 1..(Len(segs) \div 2) |-> segs[2 * i]])
            /\ \A i \in 1..Len(runs) : ~HasMarker(runs[i].text)

\* A text without markers is added unchanged, in plain runs.
C16_PlainText ==
    (RunsAdded /\ ~HasMarker(args.text)) =>
        /\ Concat([i \in 1..Len(ret.value) |-> ret.value[i].text]) = args.text
        /\ \A i \in 1..Len(ret.value) : ~ret.value[i].bold

(***************************************************************************)
(* docx_generator.py: generate_document_from_markdown.                     *)
(* The markdown content is a sequence of characters, "\n" the line break;  *)
(* the document is the sequence of the elements added to it.               *)
(***************************************************************************)

Newline == "\n"

RECURSIVE SplitLines(_, _)
\* markdown_content.split('\n') (line 46), `line` the line being read.
SplitLines(content, line) ==
    IF content = << >> THEN <<line>>
    ELSE IF Head(content) = Newline THEN <<line>> \o SplitLines(Tail(content), << >>)
    ELSE SplitLines(Tail(content), Append(line, Head(content)))

RECURSIVE LStripChars(_, _)
\* s.lstrip(chars)
LStripChars(s, chars) ==
    IF s # << >> /\ Head(s) \in chars THEN LStripChars(Tail(s), chars) ELSE s

RECURSIVE RStripChars(_, _)
\* s.rstrip(chars)
RStripChars(s, chars) ==
    IF s # << >> /\ s[Len(s)] \in chars
    THEN RStripChars(SubSeq(s, 1, Len(s) - 1), chars) ELSE s

\* s.strip(): white space off both ends.
StripSpace(s) == RStripChars(LStripChars(s, {" ", Newline}), {" ", Newline})

Digits == {"1"}

\* The length of the prefix that ^\d+\.\s matches, 0 when it does not match.
NumberPrefix(s) ==
    LET d == Len(s) - Len(LStripChars(s, Digits))
    IN  IF d > 0 /\ Len(s) >= d + 2 /\ s[d + 1] = "." /\ s[d + 2] = " "
        THEN d + 2 ELSE 0

Heading(text, level) == [kind |-> "heading", level |-> level, text |-> text]
Paragraph(style, runs) == [kind |-> "paragraph", style |-> style, runs |-> runs]

\* lines 54-56: the level is the number of leading #, at most 4; the text is
\* what lstrip('# ') leaves, stripped.
HeadingOf(stripped_line) ==
    LET level == Len(stripped_line) - Len(LStripChars(stripped_line, {"#"}))
        heading_text == StripSpace(LStripChars(stripped_line, {"#", " "}))
    IN  Heading(heading_text, Min(level, 4))

\* A plausible slip: the last branch an else, so that a blank line adds an
\* empty paragraph.
RenderLineBlankKept(line) ==
    LET stripped_line == StripSpace(line)
    IN  IF stripped_line # << >> /\ Head(stripped_line) = "#"
        THEN << HeadingOf(stripped_line) >>
        ELSE IF Len(stripped_line) >= 2 /\ stripped_line[1] \in {"*", "-"}
                /\ stripped_line[2] = " "
        THEN << Paragraph("List Bullet",
                          add_run_with_markdown(SubSeq(stripped_line, 3, Len(stripped_line)))) >>
        ELSE IF NumberPrefix(stripped_line) > 0
        THEN << Paragraph("List Number",
                          add_run_with_markdown(SubSeq(stripped_line,
                                                       NumberPrefix(stripped_line) + 1,
                                                       Len(stripped_line)))) >>
        ELSE << Paragraph("Normal", add_run_with_markdown(stripped_line)) >>
\* The elements added for one line (lines 50-73).
RenderLine(line) ==
    LET stripped_line == StripSpace(line)
    IN  IF stripped_line # << >> /\ Head(stripped_line) = "#"
        THEN << HeadingOf(stripped_line) >>
        ELSE IF Len(stripped_line) >= 2 /\ stripped_line[1] \in {"*", "-"}
                /\ stripped_line[2] = " "
        THEN << Paragraph("List Bullet",
                          add_run_with_markdown(SubSeq(stripped_line, 3, Len(stripped_line)))) >>
        ELSE IF NumberPrefix(stripped_line) > 0
        THEN << Paragraph("List Number",
                          add_run_with_markdown(SubSeq(stripped_line,
                                                       NumberPrefix(stripped_line) + 1,
                                                       Len(stripped_line)))) >>
        ELSE IF stripped_line # << >>
        THEN << Paragraph("Normal", add_run_with_markdown(stripped_line)) >>
        ELSE << >>

RECURSIVE RenderLines(_)
RenderLines(lines) ==
    IF lines = << >> THEN << >> ELSE RenderLine(Head(lines)) \o RenderLines(Tail(lines))

\* generate_document_from_markdown (lines 23-80): the document saved for
\* "docx", the text written for "md", nothing for another format.
generate_document_from_markdown(title, markdown_content, output_format) ==
    IF output_format = "md"
    THEN [file |-> "md", content |-> <<"#", " ">> \o title \o <<Newline, Newline>>
                                       \o markdown_content]
    ELSE IF output_format = "docx"
    THEN [file |-> "docx",
          elements |-> << Heading(title, 0) >>
                           \o RenderLines(SplitLines(markdown_content, << >>))]
    ELSE [file |-> "none"]

(***************************************************************************)
(* generate_document_from_markdown applied to every content of bounded     *)
(* length.                                                                 *)
(***************************************************************************)

MaxDocChars == 5

DocChars == {"#", " ", "T", Newline, "*", "-", "1", "."}

DocTitle == <<"G">>

InitDocument ==
    /\ fn = "generate_document_from_markdown"
    /\ args \in [markdown_content : SeqsUpTo(DocChars, MaxDocChars),
                 output_format : {"docx"}]
                \cup [markdown_content : SeqsUpTo(DocChars, 1),
                      output_format : {"md", "pdf"}]
    /\ ret = NoResult
    /\ NoFrontEnd

CallGenerateDocument ==
    /\ fn = "generate_document_from_markdown"
    /\ ret = NoResult
    /\ ret' = Value(generate_document_from_markdown(DocTitle, args.markdown_content,
                                                    args.output_format))
    /\ UNCHANGED <<fn, args, uiVars>>

SpecDocument == InitDocument /\ [][CallGenerateDocument]_vars

DocumentSaved ==
    /\ fn = "generate_document_from_markdown"
    /\ ret.kind = "value"
    /\ ret.value.file = "docx"

\* The content is a single heading line: n >= 1 leading # and then text.
HeadingLine(content) ==
    /\ content # << >>
    /\ Head(content) = "#"
    /\ \A i \in 1..Len(content) : content[i] # Newline

\* The number of leading # of a heading line, and the text after them.
LeadingHashes(content) == Len(content) - Len(LStripChars(content, {"#"}))
AfterHashes(content) == SubSeq(content, LeadingHashes(content) + 1, Len(content))

\* The headings of the document besides its title.
HeadingsOf(elements) ==
    SelectSeq(SubSeq(elements, 2, Len(elements)), LAMBDA e : e.kind = "heading")

\* C17 as stated: a content that is a single heading line of n leading # and
\* text yields exactly one heading besides the title, of level min(n, 4), whose
\* text is the line without its leading # and with white space trimmed.
C17_Original ==
    (DocumentSaved /\ HeadingLine(args.markdown_content)) =>
        LET n == LeadingHashes(args.markdown_content)
        IN  HeadingsOf(ret.value.elements)
                = << Heading(StripSpace(AfterHashes(args.markdown_content)),
                             IF n < 4 THEN n ELSE 4) >>

\* The same for the heading lines whose text does not itself begin with a #.
C17_PlainHeading ==
    (DocumentSaved /\ HeadingLine(args.markdown_content)
        /\ (StripSpace(AfterHashes(args.markdown_content)) = << >>
            \/ Head(StripSpace(AfterHashes(args.markdown_content))) # "#")) =>
        LET n == LeadingHashes(args.markdown_content)
        IN  HeadingsOf(ret.value.elements)
                = << Heading(StripSpace(AfterHashes(args.markdown_content)),
                             IF n < 4 THEN n ELSE 4) >>

(***************************************************************************)
(* The classification of the lines.                                        *)
(***************************************************************************)

\* The class of a line, tested on the stripped line in the order heading,
\* unordered item, ordered item, paragraph, blank.
ClassOf(line) ==
    LET s == StripSpace(line)
        starts(p) == Len(s) >= Len(p) /\ SubSeq(s, 1, Len(p)) = p
        numbered == \E d \in 1..Len(s) :
                        /\ \A i \in 1..d : s[i] \in Digits
                        /\ starts(SubSeq(s, 1, d) \o <<".", " ">>)
    IN  IF starts(<<"#">>) THEN "heading"
        ELSE IF starts(<<"*", " ">>) \/ starts(<<"-", " ">>) THEN "unordered"
        ELSE IF numbered THEN "ordered"
        ELSE IF s # << >> THEN "paragraph"
        ELSE "blank"

\* The class of a document element.
ClassOfElement(e) ==
    IF e.kind = "heading" THEN "heading"
    ELSE IF e.style = "List Bullet" THEN "unordered"
    ELSE IF e.style = "List Number" THEN "ordered"
    ELSE "paragraph"

\* The lines of the content, and the elements of the document after its title.
LinesOf(content) == SplitLines(content, << >>)
BodyOf(elements) == SubSeq(elements, 2, Len(elements))

\* C25: the body of the document has one element for each non-blank line of
\* the content and none for a blank line, in the order of the lines, each
\* element of the class of its line.
C25_LineClasses ==
    DocumentSaved =>
        LET classes == [i \in DOMAIN LinesOf(args.markdown_content) |->
                            ClassOf(LinesOf(args.markdown_content)[i])]
            nonblank == SelectSeq(classes, LAMBDA c : c # "blank")
            body == BodyOf(ret.value.elements)
        IN  /\ Len(body) = Len(nonblank)
            /\ \A i \in 1..Len(nonblank) :
                   i <= Len(body) => ClassOfElement(body[i]) = nonblank[i]

\* A content of three lines or more with a blank line among them, rendered as
\* elements of two classes or more.
C25_Witness ==
    /\ DocumentSaved
    /\ Len(LinesOf(args.markdown_content)) >= 3
    /\ \E i \in DOMAIN LinesOf(args.markdown_content) :
           ClassOf(LinesOf(args.markdown_content)[i]) = "blank"
    /\ \E i, j \in DOMAIN BodyOf(ret.value.elements) :
           ClassOfElement(BodyOf(ret.value.elements)[i])
               # ClassOfElement(BodyOf(ret.value.elements)[j])

(***************************************************************************)
(* GoogleSheetsManager (sheets_tools.py).                                  *)
(* A row is [id, cells]: cells maps each header to the cell under it, id   *)
(* is bookkeeping that tells rows apart when they move.                    *)
(***************************************************************************)

\* The header row of the live sheet, worksheet.row_values(1).
Headers == <<"Task", "Status">>
HeaderSet == { Headers[i] : i \in 1..Len(Headers) }

Row(id, task, status) == [id |-> id, cells |-> [Task |-> task, Status |-> status]]
BlankRow == Row(0, << >>, "")

\* The environments of construction: no service account file, a file but a
\* failing connection, a file and a working connection.
Configs ==
    { [service_account |-> FALSE, connects |-> FALSE],
      [service_account |-> TRUE, connects |-> FALSE],
      [service_account |-> TRUE, connects |-> TRUE] }

\* _initialize_client (lines 24-45): self.worksheet is set iff the service
\* account file exists and authorize/open_by_key/sheet1 raise nothing.
InitializeClient(cfg) == cfg.service_account /\ cfg.connects

\* get_development_mode_status (line 234)
get_development_mode_status == ~worksheet

\* The local fallback file as _read_local_csv returns it (lines 63-76).
CsvRows == << Row(101, <<"csv", "task">>, "Upcoming") >>

\* read_sheet_data (lines 47-61): the live records, or the local file when
\* there is no worksheet or get_all_records raises. `source` and `epoch` are
\* bookkeeping: where the rows came from, and how many external edits the live
\* sheet had seen when they were read.
read_sheet_data(rows, raises) ==
    IF worksheet /\ ~raises
    THEN [loaded |-> TRUE, rows |-> rows, source |-> "live", epoch |-> extEdits]
    ELSE [loaded |-> TRUE, rows |-> CsvRows, source |-> "csv", epoch |-> extEdits]

\* The digit strings int() accepts, in the bounded model: RowIdTexts[k] is str(k).
RowIdTexts == <<"1", "2", "3">>

\* int(row_id): the number, or -1 for the ValueError.
ParseInt(text) ==
    IF \E k \in 1..Len(RowIdTexts) : RowIdTexts[k] = text
    THEN CHOOSE k \in 1..Len(RowIdTexts) : RowIdTexts[k] = text
    ELSE -1

\* str(value) for the values written under the modelled headers, which are
\* texts already.
Str(value) == value

\* data.items() keeps the order of the response format (lines 81-91).
ItemsOrder ==
    <<"Workstream", "Task", "Sub Task", "Start Date", "End Date", "Effort", "Status",
      "Priority", "Tags">>

RECURSIVE Pad(_, _)
\* The rows with blank rows added up to position k.
Pad(rows, k) == IF Len(rows) >= k THEN rows ELSE Pad(Append(rows, BlankRow), k)

\* worksheet.update_cell(k + 1, headers.index(field) + 1, value)
UpdateCell(rows, k, field, value) ==
    LET padded == Pad(rows, k)
    IN  [padded EXCEPT ![k].cells[field] = value]

RECURSIVE UpdateCells(_, _, _, _)
UpdateCells(rows, k, fields, data) ==
    IF fields = << >> THEN rows
    ELSE UpdateCells(UpdateCell(rows, k, Head(fields), Str(data[Head(fields)])),
                     k, Tail(fields), data)

InHeaders(field) == field \in HeaderSet

\* _update_row (lines 114-127) on data row k = row_num - 1. The remote calls are
\* row_values(1) and one update_cell per field of data that is a header; call
\* number failAfter + 1 raises, the exception is caught and printed, and the
\* cells written before it stay written. Returns the rows and the calls made.
UpdateRow(rows, k, data, failAfter) ==
    IF failAfter = 0 THEN [rows |-> rows, calls |-> 1]
    ELSE LET present(f) == f \in DOMAIN data /\ InHeaders(f)
             fields == SelectSeq(ItemsOrder, present)
             done == Min(Len(fields), failAfter - 1)
         IN  [rows |-> UpdateCells(rows, k, SubSeq(fields, 1, done), data),
              calls |-> 1 + Min(Len(fields), failAfter)]

\* _add_new_row (lines 129-144): row_values(1), then append_row of the values
\* in header order, '' for a field data lacks.
AddNewRow(rows, id, data, failAfter) ==
    IF failAfter = 0 THEN [rows |-> rows, calls |-> 1]
    ELSE IF failAfter = 1 THEN [rows |-> rows, calls |-> 2]
    ELSE [rows |-> Append(rows, [id |-> id,
                                 cells |-> [h \in HeaderSet |->
                                               Str(Get(data, h, EmptyOf(h)))]]),
          calls |-> 2]

\* The id of the row at position k, -1 when there is none.
IdAt(rows, k) == IF k \in 1..Len(rows) THEN rows[k].id ELSE -1

\* The data row that sheet row row_num is (line 100: the header is row 1).
TargetRow(row_num) == row_num - 1

\* What the loop has done so far: the rows, the fresh id, the changes it reached,
\* the remote calls made, the updates made (bookkeeping), and whether an
\* exception left the loop.
LoopStart(rows, id) ==
    [rows |-> rows, nextId |-> id, reached |-> 0, calls |-> 0, updates |-> << >>,
     raised |-> FALSE]

RECURSIVE WriteLoop(_, _, _, _)
\* The loop of write_changes_to_sheet (lines 95-106) from change i on; fails[i]
\* says which remote call of change i raises.
WriteLoop(changes, i, fails, st) ==
    IF i > Len(changes) \/ st.raised THEN st
    ELSE LET change == changes[i]
             action == Get(change, "action", "None")
             data == Get(change, "data", << >>)
         IN  IF action = "update" /\ ~Falsy(change, "row_id")
             THEN IF ParseInt(change["row_id"]) = -1
                  THEN [st EXCEPT !.raised = TRUE]
                  ELSE LET row_num == ParseInt(change["row_id"]) + 1
                           k == TargetRow(row_num)
                           r == UpdateRow(st.rows, k, data, fails[i])
                       IN  WriteLoop(changes, i + 1, fails,
                               [st EXCEPT !.rows = r.rows,
                                          !.reached = i,
                                          !.calls = @ + r.calls,
                                          !.updates = Append(@,
                                              [change |-> i,
                                               row_id |-> ParseInt(change["row_id"]),
                                               target |-> IdAt(st.rows, k)])])
             ELSE IF action = "create"
             THEN LET r == AddNewRow(st.rows, st.nextId, data, fails[i])
                  IN  WriteLoop(changes, i + 1, fails,
                          [st EXCEPT !.rows = r.rows,
                                     !.nextId = @ + 1,
                                     !.reached = i,
                                     !.calls = @ + r.calls])
             ELSE WriteLoop(changes, i + 1, fails, [st EXCEPT !.reached = i])

\* _preview_csv_changes (lines 146-161) raises: action.upper() on a change
\* without an action (change.get('action') is None).
PreviewRaises(changes) == \E i \in 1..Len(changes) : "action" \notin DOMAIN changes[i]

\* write_changes_to_sheet (lines 78-112): the value returned and what the loop
\* did. Without a
\* worksheet only the preview is printed.
write_changes_to_sheet(changes, fails) ==
    IF ~worksheet
    THEN [success |-> ~PreviewRaises(changes), live |-> FALSE,
          loop |-> LoopStart(sheet, nextId)]
    ELSE LET st == WriteLoop(changes, 1, fails, LoopStart(sheet, nextId))
         IN  [success |-> ~st.raised, live |-> TRUE, loop |-> st]

(***************************************************************************)
(* The front end (app.py). One action is one run of the script: Streamlit  *)
(* runs it top to bottom for each user interaction and again after         *)
(* st.rerun(), one run at a time.                                          *)
(***************************************************************************)

MaxHistory == 4     \* messages in the chat history
MaxExternalEdits == 1

None == << >>   \* pending_changes is None; the script tests only its truth value

NoSnapshot == [loaded |-> FALSE, rows |-> << >>, source |-> "none", epoch |-> 0]

InitialSheet == << Row(1, <<"login">>, "In Progress"), Row(2, <<"study">>, "Upcoming") >>

Message(role, content, changes) == [role |-> role, content |-> content, changes |-> changes]

\* The bookkeeping of a new message: the snapshot its changes were computed from.
NewAudit(snapshot) ==
    [applies |-> 0, writes |-> 0, rejected |-> FALSE, lateWrite |-> FALSE,
     snapshot |-> [k \in 1..Len(snapshot.rows) |-> snapshot.rows[k].id],
     source |-> snapshot.source, epoch |-> snapshot.epoch]

\* The change lists the service proposes in this model.
UIPayloads ==
    { << [action |-> "update", row_id |-> "1",
          data |-> [Task |-> <<"login">>, Status |-> "Complete"]] >>,
      << [action |-> "update", row_id |-> "abc", data |-> [Task |-> <<"login">>]],
         [action |-> "create", data |-> [Task |-> <<"study">>]] >>,
      << [data |-> [Task |-> <<"login">>]] >>,
      << [action |-> "create", data |-> [Task |-> <<"review">>]],
         [action |-> "update", row_id |-> "2",
          data |-> [Task |-> <<"study">>, Status |-> "Complete"]] >> }

\* What agent.run answers: a failure, prose, an object without changes, a
\* fenced object with a change list.
UIResponses ==
    { [raised |-> TRUE, text |-> << >>, payload |-> << >>],
      [raised |-> FALSE, text |-> <<"T">>, payload |-> << >>],
      [raised |-> FALSE, text |-> <<"{", "K", "}">>, payload |-> << >>] }
    \cup { [raised |-> FALSE, text |-> <<"J", "{", "C", "}", "B">>, payload |-> p] :
             p \in UIPayloads }

\* Which remote call of a change raises: call number f + 1, none when f exceeds
\* the calls the change makes.
FailPoints == 0..(Len(Headers) + 1)

\* The outcomes of a read that happens (needed) or not.
ReadOutcomes(needed) == IF needed /\ worksheet THEN BOOLEAN ELSE {FALSE}

Init ==
    /\ fn = "none"
    /\ args = << >>
    /\ ret = NoResult
    /\ config \in Configs
    /\ worksheet = InitializeClient(config)
    /\ sheet = InitialSheet
    /\ sheet_data = NoSnapshot
    /\ chat_history = << >>
    /\ pending_changes = None
    /\ rerun = TRUE
    /\ nextId = 3
    /\ extEdits = 0
    /\ pendingFrom = 0
    /\ audit = << >>
    /\ lastWrite = [msg |-> 0]
    /\ lastRun = [event |-> "none"]

\* A user interaction starts a run when no run is due; the run ends in
\* st.rerun(). `room` is the number of messages the interaction adds to the chat
\* history, which the model keeps within MaxHistory.
UserRun(room) ==
    /\ ~rerun
    /\ Len(chat_history) + room <= MaxHistory
    /\ rerun' = TRUE
    /\ UNCHANGED <<pureVars, config, worksheet, extEdits>>

\* Lines 204-209: the Refresh button.
ClickRefresh ==
    /\ UserRun(0)
    /\ \E raises \in ReadOutcomes(TRUE) : sheet_data' = read_sheet_data(sheet, raises)
    /\ lastRun' = [event |-> "refresh"]
    /\ UNCHANGED <<sheet, chat_history, pending_changes, nextId, pendingFrom, audit,
                   lastWrite>>

\* Lines 266-269: the buttons are drawn for a message with changes.
HasButtons(i) == i \in 1..Len(chat_history) /\ chat_history[i].changes # << >>

\* Lines 274-276: the Apply button of message i.
ClickApply ==
    \E i \in 1..Len(chat_history) :
        /\ HasButtons(i)
        /\ UserRun(1)
        /\ pending_changes' = chat_history[i].changes
        /\ pendingFrom' = i
        /\ audit' = [audit EXCEPT ![i].applies = @ + 1]
        /\ lastRun' = [event |-> "apply", msg |-> i]
        /\ UNCHANGED <<sheet, sheet_data, chat_history, nextId, lastWrite>>

\* Lines 278-283: the Reject button of message i.
ClickReject ==
    \E i \in 1..Len(chat_history) :
        /\ HasButtons(i)
        /\ UserRun(1)
        /\ chat_history' = Append(chat_history, Message("assistant", "rejected", << >>))
        /\ audit' = Append([audit EXCEPT ![i].rejected = TRUE], NewAudit(NoSnapshot))
        /\ lastRun' = [event |-> "reject", msg |-> i]
        /\ UNCHANGED <<sheet, sheet_data, pending_changes, nextId, pendingFrom, lastWrite>>

\* A plausible slip: a failed parse handled as an update without changes, its
\* error never shown.
ProposalSilent(keys, response, today) ==
    IF ~keys THEN Message("assistant", "error: no API key", << >>)
    ELSE LET r == parse_daily_updates(response)
         IN  IF r # Error /\ r.value # << >>
             THEN Message("assistant", "proposal", validate_changes(r.value, today))
             ELSE Message("assistant", "none", << >>)

\* Lines 350-396: the assistant's message for an update. SheetsAgent() raises
\* without credentials (keys), parse_daily_updates raises its wrapped error; both
\* end in the except branch, which reports the error's text.
Proposal(keys, response, today) ==
    IF ~keys THEN Message("assistant", "error: no API key", << >>)
    ELSE LET r == parse_daily_updates(response)
         IN  IF r = Error
             THEN Message("assistant", "error: parsing daily updates", << >>)
             ELSE IF r.value # << >>
             THEN Message("assistant", "proposal", validate_changes(r.value, today))
             ELSE Message("assistant", "none", << >>)

\* Lines 332-398: the chat input. The script reaches it only when no change is
\* pending (line 329 reruns before).
SubmitUpdate ==
    \E keys \in BOOLEAN, response \in UIResponses :
        /\ keys \/ response.raised
        /\ pending_changes = None
        /\ UserRun(2)
        /\ chat_history' =
               chat_history \o << Message("user", "update", << >>),
                                  Proposal(keys, response, 364) >>
        /\ audit' = audit \o << NewAudit(NoSnapshot), NewAudit(sheet_data) >>
        /\ lastRun' = [event |-> "submit",
                       failed |-> keys /\ (response.raised \/ ~ParsedAnObject(response.text))]
        /\ UNCHANGED <<sheet, sheet_data, pending_changes, nextId, pendingFrom, lastWrite>>

\* A plausible slip: the pending changes kept after the write.
AfterWriteKept(pending) == pending

\* Line 327: st.session_state.pending_changes = None
AfterWrite(pending) == None

\* What the bookkeeping records of a write of message m's changes.
WriteRecord(m, w, n) ==
    [msg |-> m, live |-> w.live, success |-> w.success, n |-> n,
     reached |-> w.loop.reached, calls |-> w.loop.calls,
     updates |-> [j \in 1..Len(w.loop.updates) |->
                     [row_id |-> w.loop.updates[j].row_id,
                      target |-> w.loop.updates[j].target,
                      snapshot |-> IF w.loop.updates[j].row_id \in DOMAIN audit[m].snapshot
                                   THEN audit[m].snapshot[w.loop.updates[j].row_id]
                                   ELSE -1,
                      source |-> audit[m].source,
                      noEdit |-> audit[m].epoch = extEdits]]]

\* Lines 286-329: the pending changes are written, the data read again, the
\* outcome reported and the pending changes cleared.
ProcessPending ==
    \E fails \in [1..Len(pending_changes) -> IF worksheet THEN FailPoints ELSE {0}],
       raises \in ReadOutcomes(TRUE) :
        LET w == write_changes_to_sheet(pending_changes, fails)
        IN  /\ sheet' = w.loop.rows
            /\ nextId' = w.loop.nextId
            /\ sheet_data' = read_sheet_data(w.loop.rows, raises)
            /\ chat_history' = Append(chat_history,
                   Message("assistant", IF w.success THEN "applied" ELSE "failed", << >>))
            /\ pending_changes' = AfterWrite(pending_changes)
            /\ audit' = Append([audit EXCEPT ![pendingFrom].writes = @ + 1,
                                             ![pendingFrom].lateWrite =
                                                 @ \/ (audit[pendingFrom].rejected
                                                       /\ w.live /\ w.loop.calls > 0)],
                               NewAudit(NoSnapshot))
            /\ lastWrite' = WriteRecord(pendingFrom, w, Len(pending_changes))
            /\ lastRun' = [event |-> "write", msg |-> pendingFrom]
            /\ UNCHANGED <<rerun, pendingFrom>>

\* A run without a widget event: the first run, or the run st.rerun() asked for.
\* Lines 212-214 load the data if there is none; then the pending changes, if
\* any, are processed and the script reruns (line 329).
Rerun ==
    /\ rerun
    /\ IF pending_changes # None
       THEN ProcessPending
       ELSE /\ \E raises \in ReadOutcomes(~sheet_data.loaded) :
                   sheet_data' = IF sheet_data.loaded THEN sheet_data
                                 ELSE read_sheet_data(sheet, raises)
            /\ rerun' = FALSE
            /\ lastRun' = [event |-> "none"]
            /\ UNCHANGED <<sheet, chat_history, pending_changes, nextId, pendingFrom,
                           audit, lastWrite>>
    /\ UNCHANGED <<pureVars, config, worksheet, extEdits>>

\* Another editor of the live sheet: it is shared and not locked.
ExternalEdit(rows) ==
    /\ worksheet
    /\ extEdits < MaxExternalEdits
    /\ extEdits' = extEdits + 1
    /\ sheet' = rows
    /\ UNCHANGED <<pureVars, config, worksheet, sheet_data, chat_history, pending_changes,
                   rerun, pendingFrom, audit, lastWrite, lastRun>>

\* The positions another editor touches in this model: the top row.
EditPositions == {1}

ExternalInsert ==
    \E k \in EditPositions \cap 1..(Len(sheet) + 1) :
        /\ ExternalEdit(SubSeq(sheet, 1, k - 1) \o << Row(nextId, <<"external">>, "") >>
                        \o SubSeq(sheet, k, Len(sheet)))
        /\ nextId' = nextId + 1

ExternalDelete ==
    \E k \in EditPositions \cap 1..Len(sheet) :
        /\ ExternalEdit(SubSeq(sheet, 1, k - 1) \o SubSeq(sheet, k + 1, Len(sheet)))
        /\ UNCHANGED nextId

ExternalModify ==
    \E k \in EditPositions \cap 1..Len(sheet) :
        /\ ExternalEdit([sheet EXCEPT ![k].cells.Task = <<"external">>])
        /\ UNCHANGED nextId

Next ==
    \/ Rerun
    \/ ClickRefresh
    \/ ClickApply
    \/ ClickReject
    \/ SubmitUpdate
    \/ ExternalInsert
    \/ ExternalDelete
    \/ ExternalModify

Spec == Init /\ [][Next]_vars

(***************************************************************************)
(* write_changes_to_sheet applied to every change list of bounded length   *)
(* over a sample of changes, on sheets of zero to two rows, with every     *)
(* placement of a failing remote call.                                     *)
(***************************************************************************)

MaxWriteChanges == 2

WriteChanges ==
    { [action |-> "update", row_id |-> "1",
       data |-> [Task |-> <<"login">>, Status |-> "Complete"]],
      [action |-> "update", row_id |-> "2",
       data |-> [Status |-> "Complete", Priority |-> "High"]],
      [action |-> "update", row_id |-> "3", data |-> [Task |-> <<"review">>]],
      [action |-> "update", row_id |-> "abc", data |-> [Task |-> <<"login">>]],
      [action |-> "update", data |-> [Task |-> <<"login">>, Status |-> "Complete"]],
      [action |-> "create", data |-> [Task |-> <<"study">>, Priority |-> "Low"]],
      [action |-> "create", data |-> [Task |-> <<"build">>, Status |-> "Upcoming"]],
      [action |-> "delete", row_id |-> "1", data |-> [Task |-> <<"login">>]],
      [data |-> [Task |-> <<"login">>]] }

WriteSheets == { << >>, SubSeq(InitialSheet, 1, 1), InitialSheet }

InitWrite ==
    /\ fn = "write_changes_to_sheet"
    /\ config \in Configs
    /\ worksheet = InitializeClient(config)
    /\ sheet \in WriteSheets
    /\ \E changes \in SeqsUpTo(WriteChanges, MaxWriteChanges) :
           args \in [changes : {changes},
                     fails : IF worksheet THEN [1..Len(changes) -> FailPoints]
                             ELSE {[i \in 1..Len(changes) |-> 0]}]
    /\ ret = NoResult
    /\ nextId = 3
    /\ sheet_data = << >>
    /\ chat_history = << >>
    /\ pending_changes = << >>
    /\ rerun = FALSE
    /\ extEdits = 0
    /\ pendingFrom = 0
    /\ audit = << >>
    /\ lastWrite = << >>
    /\ lastRun = << >>

\* The call; `before` keeps the rows the sheet had when it was made.
CallWriteChanges ==
    /\ fn = "write_changes_to_sheet"
    /\ ret = NoResult
    /\ LET w == write_changes_to_sheet(args.changes, args.fails)
       IN  /\ ret' = Value([success |-> w.success, live |-> w.live, before |-> sheet])
           /\ sheet' = w.loop.rows
           /\ nextId' = w.loop.nextId
    /\ UNCHANGED <<fn, args, config, worksheet, sheet_data, chat_history, pending_changes,
                   rerun, extEdits, pendingFrom, audit, lastWrite, lastRun>>

SpecWrite == InitWrite /\ [][CallWriteChanges]_vars

\* The call returned, on a live sheet, and no remote call raised.
WroteLive == fn = "write_changes_to_sheet" /\ ret.kind = "value" /\ ret.value.live
NoCallFailed == \A i \in 1..Len(args.fails) : args.fails[i] > Len(Headers)

\* An update change with a row_id that is a number.
IsUpdate(change) ==
    /\ Get(change, "action", "") = "update"
    /\ "row_id" \in DOMAIN change
    /\ ParseInt(change.row_id) > 0

\* The cells of row k after the update: the value of the data under each
\* header that is a key of the data, the cell as it was under the others.
CellsUpdated(cells, data) ==
    [h \in HeaderSet |-> IF h \in DOMAIN data THEN data[h] ELSE cells[h]]

\* The cells of a created row: the values in header order, empty for a field
\* that the data lacks.
CellsCreated(data) == [h \in HeaderSet |-> IF h \in DOMAIN data THEN data[h] ELSE EmptyOf(h)]

\* The effect claimed for one change on the rows `before`.
FrameOfChange(change, before, after) ==
    IF IsUpdate(change)
    THEN LET k == ParseInt(change.row_id)
         IN  /\ Len(after) = Len(before)
             /\ \A j \in 1..Len(before) : j # k => after[j] = before[j]
             /\ k <= Len(before) =>
                    /\ after[k].id = before[k].id
                    /\ after[k].cells = CellsUpdated(before[k].cells, change.data)
    ELSE IF Get(change, "action", "") = "create"
    THEN /\ Len(after) = Len(before) + 1
         /\ SubSeq(after, 1, Len(before)) = before
         /\ after[Len(after)].cells = CellsCreated(change.data)
    ELSE TRUE

\* C19 as stated: on a live sheet an update with row_id k changes only the
\* cells of data row k under the headers that are keys of its data, and leaves
\* every other row, every other cell and the row count as they were; a create
\* appends exactly one row, of the values in header order with empty strings
\* for absent fields, and leaves the existing rows as they were.
C19_Original ==
    (WroteLive /\ NoCallFailed /\ Len(args.changes) = 1) =>
        FrameOfChange(args.changes[1], ret.value.before, sheet)

\* The same for the changes whose row_id is the position of a row of the sheet,
\* and for creates.
C19_ExistingRow ==
    (WroteLive /\ NoCallFailed /\ Len(args.changes) = 1
        /\ (IsUpdate(args.changes[1]) =>
               ParseInt(args.changes[1].row_id) <= Len(ret.value.before))) =>
        FrameOfChange(args.changes[1], ret.value.before, sheet)

(***************************************************************************)
(* SheetsAgent.preview_changes against the writer.                         *)
(***************************************************************************)

\* str.upper() on the actions of the model.
Upper(action) ==
    CASE action = "update"  -> "UPDATE"
      [] action = "create"  -> "CREATE"
      [] action = "delete"  -> "DELETE"
      [] action = "unknown" -> "UNKNOWN"
      [] OTHER              -> action

\* The entry of the preview for one change (sheets_agent.py lines 246-256): the
\* action in upper case, then "Updating Row k" for an update with a row_id and
\* "Creating New Row" for every other change.
PreviewEntry(change) ==
    LET action == Get(change, "action", "unknown")
    IN  IF action = "update" /\ ~Falsy(change, "row_id")
        THEN [action |-> Upper(action), line |-> "Updating Row", row |-> change.row_id]
        ELSE [action |-> Upper(action), line |-> "Creating New Row", row |-> ""]

\* preview_changes (sheets_agent.py lines 237-267), one entry per change.
preview_changes(changes) ==
    IF changes = << >> THEN <<"No changes to make.">>
    ELSE [i \in 1..Len(changes) |-> PreviewEntry(changes[i])]

\* What the writer did agrees with the preview entry of the change: a change
\* previewed as "Updating Row k" was written to row k, one previewed as
\* "Creating New Row" added exactly one row, with its values.
FateAgrees(entry, change, before, after) ==
    IF entry.line = "Updating Row"
    THEN LET k == ParseInt(entry.row)
         IN  /\ k \in 1..Len(after)
             /\ \A h \in HeaderSet \cap DOMAIN change.data :
                    after[k].cells[h] = change.data[h]
    ELSE /\ Len(after) = Len(before) + 1
         /\ after[Len(after)].cells = CellsCreated(Get(change, "data", << >>))

\* C20 as stated: the preview and the writer agree on the fate of every change:
\* no change shown in the preview is skipped by the writer, an update without
\* row_id and an action other than create and update included.
C20_Original ==
    (WroteLive /\ NoCallFailed /\ Len(args.changes) = 1) =>
        FateAgrees(preview_changes(args.changes)[1], args.changes[1],
                   ret.value.before, sheet)

\* The same for the creates and for the updates with a row_id that is a number.
C20_CreateAndUpdate ==
    (WroteLive /\ NoCallFailed /\ Len(args.changes) = 1
        /\ (Get(args.changes[1], "action", "") = "create" \/ IsUpdate(args.changes[1]))) =>
        FateAgrees(preview_changes(args.changes)[1], args.changes[1],
                   ret.value.before, sheet)

(***************************************************************************)
(* The value that write_changes_to_sheet returns.                          *)
(***************************************************************************)

\* The change is on the sheet after the call: a create added one row with its
\* values, an update has its values in the cells of its row.
Applied(change, before, after) ==
    IF Get(change, "action", "") = "create"
    THEN /\ Len(after) = Len(before) + 1
         /\ after[Len(after)].cells = CellsCreated(Get(change, "data", << >>))
    ELSE IF Get(change, "action", "") = "update"
    THEN /\ IsUpdate(change)
         /\ ParseInt(change.row_id) <= Len(after)
         /\ \A h \in HeaderSet \cap DOMAIN change.data :
                after[ParseInt(change.row_id)].cells[h] = change.data[h]
    ELSE TRUE

\* C21 as stated: on a live sheet write_changes_to_sheet returns True only if
\* every create and update change of the list was applied to the sheet; when a
\* row write failed it returns False.
C21_Original ==
    (WroteLive /\ Len(args.changes) = 1 /\ ret.value.success) =>
        Applied(args.changes[1], ret.value.before, sheet)

\* What holds instead: the call returns False exactly when the row_id of an
\* update it reached is not a number, whatever remote call failed.
C21_FalseOnlyOnRowId ==
    WroteLive =>
        (ret.value.success <=>
            \A i \in 1..Len(args.changes) :
                (Get(args.changes[i], "action", "") = "update"
                    /\ ~Falsy(args.changes[i], "row_id"))
                    => ParseInt(args.changes[i].row_id) > 0)

(***************************************************************************)
(* The claims about the front end and the sheet.                           *)
(***************************************************************************)

Written == lastWrite.msg # 0

\* C1: every write_changes_to_sheet call is the write of one Apply click: for
\* each message, the writes of its changes plus the one still pending equal the
\* Apply clicks on it; pending changes are the changes of the message whose
\* Apply button was clicked; and what was written was a displayed change set.
C1_WriteNeedsApply ==
    /\ \A i \in DOMAIN audit :
           audit[i].writes + (IF pending_changes # None /\ pendingFrom = i THEN 1 ELSE 0)
               = audit[i].applies
    /\ pending_changes # None =>
           /\ HasButtons(pendingFrom)
           /\ pending_changes = chat_history[pendingFrom].changes
    /\ Written => HasButtons(lastWrite.msg)

\* A change set was applied once to the live sheet, and nothing is pending
\* after it.
C1_Witness ==
    /\ Written
    /\ lastWrite.live
    /\ lastWrite.calls > 0
    /\ audit[lastWrite.msg].applies = 1
    /\ audit[lastWrite.msg].writes = 1
    /\ pending_changes = None

\* C3 as stated, its second half: an update with row_id k written with no
\* external edit since the snapshot was read modifies the row that was k-th in
\* the snapshot.
C3_Original ==
    Written =>
        \A j \in DOMAIN lastWrite.updates :
            LET u == lastWrite.updates[j]
            IN  (u.noEdit /\ u.snapshot # -1) => u.target = u.snapshot

\* C3 for a snapshot that was read from the live sheet.
C3_LiveSnapshot ==
    Written =>
        \A j \in DOMAIN lastWrite.updates :
            LET u == lastWrite.updates[j]
            IN  (u.noEdit /\ u.snapshot # -1 /\ u.source = "live") => u.target = u.snapshot

\* C3, the race: an update written after an external edit lands on another row
\* than the one that was k-th in the live snapshot.
C3_Race ==
    /\ Written
    /\ \E j \in DOMAIN lastWrite.updates :
           LET u == lastWrite.updates[j]
           IN  ~u.noEdit /\ u.source = "live" /\ u.snapshot # -1 /\ u.target # u.snapshot

\* C4 as stated: on a live sheet the loop reaches every change of the list,
\* whatever failed before.
C4_Original == (Written /\ lastWrite.live) => lastWrite.reached = lastWrite.n

\* C6: when the service call or the JSON parse fails, the run adds the user's
\* message and one error message without changes, nothing was or becomes
\* pending, nothing is written, and the script reruns into a state that takes
\* the next update.
C6_FailureDiscardsUpdate ==
    [][ (chat_history' # chat_history /\ lastRun'.event = "submit" /\ lastRun'.failed) =>
            /\ chat_history' =
                   chat_history \o << Message("user", "update", << >>),
                                      Message("assistant", "error: parsing daily updates",
                                              << >>) >>
            /\ pending_changes = None
            /\ pending_changes' = None
            /\ sheet' = sheet
            /\ lastWrite' = lastWrite
            /\ \A i \in DOMAIN audit : audit'[i] = audit[i]
            /\ rerun' ]_vars

\* An update failed, and the next update was taken and led to a proposal.
C6_Witness ==
    /\ Len(chat_history) = 4
    /\ chat_history[2].content = "error: parsing daily updates"
    /\ chat_history[4].content = "proposal"
    /\ ~Written

\* C7 as stated: the development-mode status is true exactly without a
\* connected worksheet, and a write in development mode succeeds for every
\* change list and makes no remote call.
C7_Original ==
    /\ get_development_mode_status <=> ~(config.service_account /\ config.connects)
    /\ (Written /\ ~lastWrite.live) => (lastWrite.success /\ lastWrite.calls = 0)

\* C8 as stated: no change set is written to the spreadsheet after the user
\* rejected it.
C8_Original == \A i \in DOMAIN audit : ~audit[i].lateWrite

RECURSIVE CreatesApplied(_)
\* The create changes of the first n messages whose Apply button was clicked.
CreatesApplied(n) ==
    IF n = 0 THEN 0
    ELSE CreatesApplied(n - 1)
         + (IF audit[n].applies > 0
            THEN Len(SelectSeq(chat_history[n].changes,
                               LAMBDA c : Get(c, "action", "") = "create"))
            ELSE 0)

\* C22 as stated: no change set is written to the sheet more than once, so one
\* create change appends at most one row: with no external edit, the live sheet
\* has at most one more row for each create change of an applied change set.
C22_Original ==
    (worksheet /\ extEdits = 0) =>
        Len(sheet) <= Len(InitialSheet) + CreatesApplied(Len(chat_history))
\* C23 as stated: while a live connection exists the snapshot that
\* read_sheet_data returned is the content of the live sheet, never the local
\* fallback file, and no update is written to the live sheet at a position
\* taken from the fallback file's rows.
C23_Original ==
    ~get_development_mode_status =>
        /\ sheet_data.loaded => sheet_data.source = "live"
        /\ (Written /\ lastWrite.live) =>
               \A j \in DOMAIN lastWrite.updates : lastWrite.updates[j].source # "csv"
====
